---- MODULE Spec2Model ----
(***************************************************************************)
(* A model of the swagger-mcp tool handlers: load-swagger, login and       *)
(* call-api, registered with createMcpHandler.                             *)
(*                                                                         *)
(* The repository holds three definitions of the handler set:              *)
(*   "part_000"  src/unnamed/part_000          (try/catch, success flag)   *)
(*   "route_v1"  src/app/api/mcp/route.ts:1-175   (try/catch, plain text)  *)
(*   "route_v2"  src/app/api/mcp/route.ts:177-329 (no try/catch, no check) *)
(* The variable `variant` says which one is deployed.  One invocation is   *)
(* modelled at a time (the handlers share no state); every await of the    *)
(* code is a step of its own, settled by the outcome of the external I/O.  *)
(*                                                                         *)
(* JavaScript values are tagged records, so that values of different       *)
(* JavaScript types can be compared: Undef, Null, Str, Num, Bool, Arr,     *)
(* Obj (a property map) and OrdObj (a property list in declared order,     *)
(* used for the document's `paths`).                                       *)
(***************************************************************************)
EXTENDS Integers, Sequences, FiniteSets, TLC

VARIABLES variant, pc, tool, args, sent, io, doc, result

vars == <<variant, pc, tool, args, sent, io, doc, result>>

(* ------------------------------ bounds -------------------------------- *)

MaxServers == 2
MaxSchemes == 2
MaxPaths == 2

(* ------------------------- JavaScript values -------------------------- *)

Undef == [t |-> "undefined"]
Null == [t |-> "null"]
Str(s) == [t |-> "string", s |-> s]
Num(n) == [t |-> "number", n |-> n]
Bool(b) == [t |-> "boolean", b |-> b]
Arr(a) == [t |-> "array", a |-> a]
Obj(f) == [t |-> "object", f |-> f]
OrdObj(e) == [t |-> "ordered", e |-> e]

EmptyObj == Obj([k \in {} |-> Undef])

\* ToBoolean: undefined, null, "", 0 and false are falsy
Truthy(v) ==
    CASE v.t = "undefined" -> FALSE
      [] v.t = "null" -> FALSE
      [] v.t = "string" -> v.s # ""
      [] v.t = "number" -> v.n # 0
      [] v.t = "boolean" -> v.b
      [] OTHER -> TRUE

\* typeof v === "string"
IsString(v) == v.t = "string"

\* o?.[k] : undefined on undefined and null, and for a property o lacks
Get(o, k) ==
    IF o.t = "object" /\ k \in DOMAIN o.f THEN o.f[k] ELSE Undef

\* "k" in o, for an object parsed from JSON (no property holds undefined)
In(k, o) == o.t = "object" /\ k \in DOMAIN o.f /\ o.f[k] # Undef

\* a?.length
OptLength(a) == IF a.t = "array" THEN Num(Len(a.a)) ELSE Undef

\* a?.[0]
OptFirst(a) == IF a.t = "array" /\ Len(a.a) > 0 THEN a.a[1] ELSE Undef

\* a ?? b
Nullish(a, b) == IF a = Undef \/ a = Null THEN b ELSE a

\* `${v}` inside a template literal
Template(v) ==
    CASE v.t = "string" -> v.s
      [] v.t = "number" -> ToString(v.n)
      [] v.t = "null" -> "null"
      [] v.t = "undefined" -> "undefined"
      [] OTHER -> "[object Object]"

\* String.prototype.startsWith
StartsWith(s, p) == Len(s) >= Len(p) /\ SubSeq(s, 1, Len(p)) = p

\* String.prototype.includes
Includes(s, p) ==
    \E i \in 1..(Len(s) - Len(p) + 1) : SubSeq(s, i, i + Len(p) - 1) = p

(* ---------------------------- Object.keys ----------------------------- *)

Digits == {"0", "1", "2", "3", "4", "5", "6", "7", "8", "9"}

DigitVal(c) ==
    CASE c = "0" -> 0 [] c = "1" -> 1 [] c = "2" -> 2 [] c = "3" -> 3
      [] c = "4" -> 4 [] c = "5" -> 5 [] c = "6" -> 6 [] c = "7" -> 7
      [] c = "8" -> 8 [] c = "9" -> 9

\* an integer-like property key ("0", "7", "10"; not "07", not "/a")
IsIndexKey(k) ==
    /\ Len(k) > 0
    /\ \A i \in 1..Len(k) : SubSeq(k, i, i) \in Digits
    /\ (Len(k) > 1 => SubSeq(k, 1, 1) # "0")

RECURSIVE KeyNum(_)
KeyNum(k) ==
    IF Len(k) = 0 THEN 0
    ELSE 10 * KeyNum(SubSeq(k, 1, Len(k) - 1)) + DigitVal(SubSeq(k, Len(k), Len(k)))

KeyLess(a, b) == KeyNum(a) < KeyNum(b)

NotIndexKey(k) == ~IsIndexKey(k)

ObjectKeys_reversed(o) ==
    [i \in 1..Len(o.e) |-> o.e[Len(o.e) + 1 - i].k]

\* Object.keys: the integer-like keys in ascending order, then the other
\* keys in the order they were declared
ObjectKeys(o) ==
    LET keys == [i \in 1..Len(o.e) |-> o.e[i].k]
    IN  SortSeq(SelectSeq(keys, IsIndexKey), KeyLess) \o SelectSeq(keys, NotIndexKey)

(* --------------------------- JSON.stringify --------------------------- *)

RECURSIVE Stringify(_)
\* the value a reader of JSON.stringify(v, null, 2) parses back: properties
\* holding undefined are dropped, null is kept
Stringify(v) ==
    CASE v.t = "object" ->
            Obj([k \in {x \in DOMAIN v.f : v.f[x] # Undef} |-> Stringify(v.f[k])])
      [] v.t = "array" ->
            Arr([i \in 1..Len(v.a) |->
                    IF v.a[i] = Undef THEN Null ELSE Stringify(v.a[i])])
      [] OTHER -> v

JsonText(v) == [fmt |-> "json", v |-> Stringify(v)]
PlainText(s) == [fmt |-> "plain", s |-> s]

\* the cross mark U+274C that starts the failure texts of route.ts
CrossMark == "[X]"

(* --------------------------- handler results -------------------------- *)

NoResult == [how |-> "none"]
\* return { content: [ { type: "text", text } ] }
Return(text) == [how |-> "return", content |-> <<[type |-> "text", text |-> text]>>]
\* the async handler's promise rejects with err
Throw(err) == [how |-> "throw", err |-> err]

Error(msg) == [cls |-> "Error", message |-> msg, response |-> Undef]
AxiosError(msg, response) == [cls |-> "AxiosError", message |-> msg, response |-> response]

\* err instanceof Error ? err.message : String(err)
ErrorMessage(err) ==
    IF err.cls \in {"Error", "AxiosError"} THEN err.message ELSE "[object Object]"

\* axios.isAxiosError(err)
IsAxiosError(err) == err.cls = "AxiosError"

(* --------------------------- resolveBaseUrl --------------------------- *)

resolveBaseUrl_hostFirst(api) ==
    IF In("host", api) /\ Truthy(Get(api, "host"))
    THEN Str(Template(Nullish(OptFirst(Get(api, "schemes")), Str("https")))
             \o "://" \o Template(Get(api, "host"))
             \o Template(Nullish(Get(api, "basePath"), Str(""))))
    ELSE IF In("servers", api) /\ Truthy(OptLength(Get(api, "servers")))
    THEN Get(OptFirst(Get(api, "servers")), "url")
    ELSE Null

resolveBaseUrl_httpDefault(api) ==
    IF In("servers", api) /\ Truthy(OptLength(Get(api, "servers")))
    THEN Get(OptFirst(Get(api, "servers")), "url")
    ELSE IF In("host", api) /\ Truthy(Get(api, "host"))
    THEN Str(Template(Nullish(OptFirst(Get(api, "schemes")), Str("http")))
             \o "://" \o Template(Get(api, "host"))
             \o Template(Nullish(Get(api, "basePath"), Str(""))))
    ELSE Null

resolveBaseUrl_emptyString(api) ==
    IF In("servers", api) /\ Truthy(OptLength(Get(api, "servers")))
    THEN Get(OptFirst(Get(api, "servers")), "url")
    ELSE IF In("host", api) /\ Truthy(Get(api, "host"))
    THEN Str(Template(Nullish(OptFirst(Get(api, "schemes")), Str("https")))
             \o "://" \o Template(Get(api, "host"))
             \o Template(Nullish(Get(api, "basePath"), Str(""))))
    ELSE Str("")

\* the same function text in part_000:13-26, route.ts:14-27 and route.ts:188-203
resolveBaseUrl(api) ==
    IF In("servers", api) /\ Truthy(OptLength(Get(api, "servers")))
    THEN Get(OptFirst(Get(api, "servers")), "url")
    ELSE IF In("host", api) /\ Truthy(Get(api, "host"))
    THEN LET scheme == Nullish(OptFirst(Get(api, "schemes")), Str("https"))
         IN  Str(Template(scheme) \o "://" \o Template(Get(api, "host"))
                 \o Template(Nullish(Get(api, "basePath"), Str(""))))
    ELSE Null

(* -------------------------------- axios ------------------------------- *)

Timeout == 10000
MaxContentLength == 5242880

Variants == {"part_000", "route_v1", "route_v2"}

NoHeaders == [k \in {} |-> ""]

\* what the network does with a request: an HTTP response, or none
Responded(status, statusText, data) ==
    [kind |-> "response", status |-> status, statusText |-> statusText, data |-> data]
NoResponse(kind) == [kind |-> kind]

Response(o) ==
    Obj([status |-> Num(o.status), statusText |-> Str(o.statusText), data |-> o.data])

\* how the promise returned by axios settles: it resolves with the response
\* for a 2xx status (the default validateStatus) and rejects with an
\* AxiosError otherwise; the error holds the response only if one arrived
Axios(o) ==
    CASE o.kind = "response" /\ o.status >= 200 /\ o.status < 300 ->
            [ok |-> TRUE, response |-> Response(o)]
      [] o.kind = "response" ->
            [ok |-> FALSE,
             err |-> AxiosError("Request failed with status code " \o ToString(o.status),
                                Response(o))]
      [] o.kind = "timeout" ->
            [ok |-> FALSE,
             err |-> AxiosError("timeout of " \o ToString(Timeout) \o "ms exceeded", Undef)]
      [] o.kind = "oversize" ->
            [ok |-> FALSE,
             err |-> AxiosError("maxContentLength size of " \o ToString(MaxContentLength)
                                    \o " exceeded", Undef)]
      [] OTHER ->
            [ok |-> FALSE, err |-> AxiosError("Network Error", Undef)]

(* --------------------- inputs and external outcomes ------------------- *)

SeqsUpTo(S, n) == UNION {[1..m -> S] : m \in 0..n}

DistinctSeqsUpTo(S, n) ==
    {q \in SeqsUpTo(S, n) : \A i, j \in 1..Len(q) : i # j => q[i] # q[j]}

ServerUrls == {"https://a.example/v3", "http://b.example"}
SchemeNames == {"http", "wss"}
PathKeys == {"/a", "/b", "x-internal", "7"}

ServersValues ==
    {Undef} \cup {Arr([i \in 1..Len(q) |-> Obj([url |-> Str(q[i])])]) :
                    q \in SeqsUpTo(ServerUrls, MaxServers)}
SchemesValues ==
    {Undef} \cup {Arr([i \in 1..Len(q) |-> Str(q[i])]) :
                    q \in SeqsUpTo(SchemeNames, MaxSchemes)}
HostValues == {Undef, Str(""), Str("api.example.com")}
BasePathValues == {Undef, Str("/v1")}
PathsValues ==
    {Undef} \cup {OrdObj([i \in 1..Len(q) |-> [k |-> q[i], v |-> EmptyObj]]) :
                    q \in DistinctSeqsUpTo(PathKeys, MaxPaths)}

Document(openapi, swagger, servers, host, schemes, basePath, paths) ==
    Obj([openapi |-> openapi, swagger |-> swagger, servers |-> servers,
         host |-> host, schemes |-> schemes, basePath |-> basePath,
         paths |-> paths])

\* documents that vary the fields resolveBaseUrl reads
OriginDocs ==
    {Document(m[1], m[2], sv, h, sc, bp, OrdObj(<<[k |-> "/a", v |-> EmptyObj]>>)) :
        m \in {<<Str("3.0.0"), Undef>>, <<Undef, Str("2.0")>>},
        sv \in ServersValues, h \in HostValues, sc \in SchemesValues,
        bp \in BasePathValues}

\* documents that vary the version markers and the paths
PathDocs ==
    {Document(m[1], m[2], sv, Undef, Undef, Undef, p) :
        m \in {<<Undef, Undef>>, <<Str("3.0.0"), Undef>>, <<Undef, Str("2.0")>>,
               <<Str(""), Undef>>},
        sv \in {Undef, Arr(<<Obj([url |-> Str("https://a.example/v3")])>>)},
        p \in PathsValues}

\* response bodies that are no JSON object: null, an empty body, YAML text
NonObjectBodies == {Null, Str(""), Str("openapi: 3.0.0")}

FetchedBodies == OriginDocs \cup PathDocs \cup NonObjectBodies

GetOutcomes ==
    {NoResponse("network"), NoResponse("timeout"), NoResponse("oversize"),
     Responded(404, "Not Found", Str(""))}
    \cup {Responded(200, "OK", d) : d \in FetchedBodies}

Urls == {"https://a.example/spec.json", "http://example.com/spec.json",
         "HTTPS://a.example/spec.json", "https:/", ""}

LoginTokenFields == {Undef, Str("token"), Str("access_token")}
LoginBodies == {Undef, Obj([username |-> Str("u"), password |-> Str("p")])}

LoginResponseBodies ==
    {Str(""), Null, EmptyObj,
     Obj([token |-> Str("abc123")]),
     Obj([token |-> Str("")]),
     Obj([token |-> Num(5)]),
     Obj([token |-> Null, access_token |-> Str("xyz")]),
     Obj([data |-> Obj([token |-> Str("nested")])])}

LoginOutcomes ==
    {NoResponse("network"), NoResponse("timeout"),
     Responded(401, "Unauthorized", Obj([message |-> Str("bad credentials")]))}
    \cup {Responded(200, "OK", d) : d \in LoginResponseBodies}

Methods == {"GET", "POST", "PUT", "DELETE", "PATCH"}
AuthTokens == {Undef, Str(""), Str("abc123")}
Queries == {Undef, Obj([page |-> Str("1")])}
Bodies == {Undef, Obj([name |-> Str("n")])}

CallOutcomes ==
    {NoResponse("network"), NoResponse("timeout"),
     Responded(200, "OK", Obj([id |-> Num(1)])),
     Responded(204, "No Content", Str("")),
     Responded(404, "Not Found", Obj([message |-> Str("not found")])),
     Responded(500, "Internal Server Error", Str(""))}

(* ---------------------------- load-swagger ---------------------------- *)

\* the handler definitions that test url.startsWith("https://") first
HasHttpsCheck(v) == v \in {"part_000", "route_v1"}

\* axios.get(url, { timeout, maxContentLength [, headers] })
LoadSwaggerRequest(v, url) ==
    [method |-> "get", url |-> url,
     headers |-> IF v = "part_000"
                 THEN ("Accept" :> "application/json, application/yaml")
                 ELSE NoHeaders,
     params |-> Undef, data |-> Undef,
     timeout |-> Timeout, maxContentLength |-> MaxContentLength]

\* !swaggerDoc || (!swaggerDoc.openapi && !swaggerDoc.swagger)
InvalidDocument(swaggerDoc) ==
    \/ ~Truthy(swaggerDoc)
    \/ (~Truthy(Get(swaggerDoc, "openapi")) /\ ~Truthy(Get(swaggerDoc, "swagger")))

\* The OpenAPI 2.0 and 3.0 schemas allow in `paths` only keys that start
\* with "/" or "x-"; SwaggerParser.validate throws on any other key.
SchemaAllowsPaths(swaggerDoc) ==
    LET p == Get(swaggerDoc, "paths")
    IN  p.t = "ordered" =>
            \A i \in 1..Len(p.e) : StartsWith(p.e[i].k, "/") \/ StartsWith(p.e[i].k, "x-")

\* await SwaggerParser.validate(swaggerDoc, ...): the validator's other rules
\* are not modelled, so it may reject any document
ValidateOutcomes(swaggerDoc) ==
    {"reject"} \cup (IF SchemaAllowsPaths(swaggerDoc) THEN {"accept"} ELSE {})

\* the catch block of load-swagger (route_v2 has none: the promise rejects)
LoadSwaggerFailure(v, err) ==
    CASE v = "part_000" ->
            Return(JsonText(Obj([success |-> Bool(FALSE),
                                 error |-> Str(ErrorMessage(err))])))
      [] v = "route_v1" ->
            Return(PlainText(CrossMark \o " Swagger load failed: " \o ErrorMessage(err)))
      [] OTHER -> Throw(err)

\* the return statement of load-swagger
LoadSwaggerSuccess(v, api) ==
    LET keys == ObjectKeys(Nullish(Get(api, "paths"), OrdObj(<<>>)))
        payload == [baseUrl |-> resolveBaseUrl(api),
                    endpoints |-> Num(Len(keys)),
                    paths |-> Arr([i \in 1..Len(keys) |-> Str(keys[i])])]
    IN  IF v = "part_000"
        THEN Return(JsonText(Obj([success |-> Bool(TRUE)] @@ payload)))
        ELSE Return(JsonText(Obj(payload)))

(* -------------------------------- login ------------------------------- *)

\* tokenField: z.string().default("token")
ZodTokenField(arg) == IF arg = Undef THEN "token" ELSE arg.s

\* axios.post(`${baseUrl}${path}`, body ?? {}, { timeout [, headers] })
LoginRequest(v, baseUrl, path, body) ==
    [method |-> "post", url |-> baseUrl \o path,
     headers |-> IF v = "part_000"
                 THEN ("Content-Type" :> "application/json")
                 ELSE NoHeaders,
     params |-> Undef,
     data |-> IF v = "route_v2" THEN body ELSE Nullish(body, EmptyObj),
     timeout |-> Timeout, maxContentLength |-> -1]

\* the error thrown when typeof token !== "string"
TokenNotFound(v, tokenField) ==
    IF v = "part_000"
    THEN Error("Token field '" \o tokenField \o "' not found in response")
    ELSE Error("Token not found in response")

LoginFailure(v, err) ==
    CASE v = "part_000" ->
            Return(JsonText(Obj([success |-> Bool(FALSE),
                                 error |-> Str(ErrorMessage(err))])))
      [] v = "route_v1" ->
            Return(PlainText(CrossMark \o " Login failed: " \o ErrorMessage(err)))
      [] OTHER -> Throw(err)

LoginSuccess(v, token) ==
    IF v = "part_000"
    THEN Return(JsonText(Obj([success |-> Bool(TRUE), token |-> token])))
    ELSE Return(JsonText(Obj([token |-> token])))

(* ------------------------------- call-api ----------------------------- *)

AuthHeaders_whenSupplied(authToken) ==
    IF authToken # Undef
    THEN ("Authorization" :> ("Bearer " \o Template(authToken)))
    ELSE NoHeaders

\* authToken ? { Authorization: `Bearer ${authToken}` } : {}
AuthHeaders(authToken) ==
    IF Truthy(authToken)
    THEN ("Authorization" :> ("Bearer " \o Template(authToken)))
    ELSE NoHeaders

\* axios({ method, url, params, data, headers, timeout })
CallApiRequest(v, a) ==
    [method |-> a.method, url |-> a.baseUrl \o a.path,
     headers |-> IF v = "part_000"
                 THEN ("Content-Type" :> "application/json") @@ AuthHeaders(a.authToken)
                 ELSE AuthHeaders(a.authToken),
     params |-> a.query, data |-> a.body,
     timeout |-> Timeout, maxContentLength |-> -1]

CallApiSuccess(v, response) ==
    IF v = "part_000"
    THEN Return(JsonText(Obj([success |-> Bool(TRUE),
                              data |-> Get(response, "data"),
                              status |-> Get(response, "status")])))
    ELSE Return(JsonText(Get(response, "data")))

CallApiFailure(v, err) ==
    CASE v = "part_000" ->
            LET axiosError ==
                    IF IsAxiosError(err)
                    THEN Obj([status |-> Get(err.response, "status"),
                              statusText |-> Get(err.response, "statusText"),
                              data |-> Get(err.response, "data")])
                    ELSE Null
                base == [success |-> Bool(FALSE), error |-> Str(ErrorMessage(err))]
            IN  Return(JsonText(Obj(IF Truthy(axiosError)
                                    THEN base @@ [details |-> axiosError]
                                    ELSE base)))
      [] v = "route_v1" ->
            Return(PlainText(CrossMark \o " API call failed: " \o ErrorMessage(err)))
      [] OTHER -> Throw(err)

(* ------------------------------- actions ------------------------------ *)

NoIo == [kind |-> "none"]

Init ==
    /\ variant \in Variants
    /\ pc = "idle"
    /\ tool = "none"
    /\ args = <<>>
    /\ sent = <<>>
    /\ io = NoIo
    /\ doc = Undef
    /\ result = NoResult

\* load-swagger is called: the HTTPS test (where the handler has one), then
\* the document fetch is issued and awaited
LoadSwaggerInvoke ==
    /\ pc = "idle"
    /\ \E url \in Urls :
        /\ tool' = "load-swagger"
        /\ args' = [url |-> url]
        /\ IF HasHttpsCheck(variant) /\ ~StartsWith(url, "https://")
           THEN /\ result' = LoadSwaggerFailure(variant, Error("Only HTTPS URLs are allowed"))
                /\ pc' = "done"
                /\ sent' = <<>>
           ELSE /\ result' = NoResult
                /\ pc' = "await-get"
                /\ sent' = <<LoadSwaggerRequest(variant, url)>>
    /\ UNCHANGED <<variant, io, doc>>

\* axios.get settles: a rejection is the handler's failure; a response is
\* tested for a version marker and handed to the validator
LoadSwaggerFetched ==
    /\ pc = "await-get"
    /\ \E o \in GetOutcomes :
        /\ io' = o
        /\ LET r == Axios(o)
           IN  IF ~r.ok
               THEN /\ result' = LoadSwaggerFailure(variant, r.err)
                    /\ pc' = "done"
                    /\ doc' = Undef
               ELSE IF InvalidDocument(Get(r.response, "data"))
               THEN /\ result' = LoadSwaggerFailure(variant,
                                    Error("Invalid Swagger/OpenAPI document"))
                    /\ pc' = "done"
                    /\ doc' = Undef
               ELSE /\ result' = NoResult
                    /\ pc' = "await-validate"
                    /\ doc' = Get(r.response, "data")
    /\ UNCHANGED <<variant, tool, args, sent>>

\* SwaggerParser.validate settles: it throws, or returns the document
LoadSwaggerValidated ==
    /\ pc = "await-validate"
    /\ \E o \in ValidateOutcomes(doc) :
        /\ io' = [kind |-> "validate", outcome |-> o]
        /\ result' = IF o = "accept"
                     THEN LoadSwaggerSuccess(variant, doc)
                     ELSE LoadSwaggerFailure(variant,
                                Error("Swagger schema validation failed"))
    /\ pc' = "done"
    /\ UNCHANGED <<variant, tool, args, sent, doc>>

\* login is called: the POST is issued and awaited
LoginInvoke ==
    /\ pc = "idle"
    /\ \E body \in LoginBodies, tf \in LoginTokenFields :
        /\ args' = [baseUrl |-> "https://api.example.com", path |-> "/auth/login",
                    body |-> body, tokenField |-> ZodTokenField(tf),
                    tokenFieldGiven |-> tf]
        /\ sent' = <<LoginRequest(variant, "https://api.example.com", "/auth/login", body)>>
    /\ tool' = "login"
    /\ pc' = "await-post"
    /\ result' = NoResult
    /\ UNCHANGED <<variant, io, doc>>

\* axios.post settles
LoginResponded ==
    /\ pc = "await-post"
    /\ \E o \in LoginOutcomes :
        /\ io' = o
        /\ LET r == Axios(o)
           IN  IF ~r.ok
               THEN result' = LoginFailure(variant, r.err)
               ELSE LET token == Get(Get(r.response, "data"), args.tokenField)
                    IN  IF ~IsString(token)
                        THEN result' = LoginFailure(variant,
                                            TokenNotFound(variant, args.tokenField))
                        ELSE result' = LoginSuccess(variant, token)
    /\ pc' = "done"
    /\ UNCHANGED <<variant, tool, args, sent, doc>>

\* call-api is called: the request is issued and awaited
CallApiInvoke ==
    /\ pc = "idle"
    /\ \E m \in Methods, q \in Queries, b \in Bodies, t \in AuthTokens :
        LET a == [baseUrl |-> "https://api.example.com", method |-> m,
                  path |-> "/items", query |-> q, body |-> b, authToken |-> t]
        IN  /\ args' = a
            /\ sent' = <<CallApiRequest(variant, a)>>
    /\ tool' = "call-api"
    /\ pc' = "await-call"
    /\ result' = NoResult
    /\ UNCHANGED <<variant, io, doc>>

\* axios(...) settles
CallApiResponded ==
    /\ pc = "await-call"
    /\ \E o \in CallOutcomes :
        /\ io' = o
        /\ LET r == Axios(o)
           IN  result' = IF r.ok
                         THEN CallApiSuccess(variant, r.response)
                         ELSE CallApiFailure(variant, r.err)
    /\ pc' = "done"
    /\ UNCHANGED <<variant, tool, args, sent, doc>>

\* the transport takes the settled result; nothing outlives the invocation
Deliver ==
    /\ pc = "done"
    /\ pc' = "idle"
    /\ tool' = "none"
    /\ args' = <<>>
    /\ sent' = <<>>
    /\ io' = NoIo
    /\ doc' = Undef
    /\ result' = NoResult
    /\ UNCHANGED variant

Next ==
    \/ LoadSwaggerInvoke
    \/ LoadSwaggerFetched
    \/ LoadSwaggerValidated
    \/ LoginInvoke
    \/ LoginResponded
    \/ CallApiInvoke
    \/ CallApiResponded
    \/ Deliver

Spec == Init /\ [][Next]_vars

\* the handlers of src/unnamed/part_000 alone
SpecPart000 == Init /\ variant = "part_000" /\ [][Next]_vars

(* ----------------------- reading a settled result --------------------- *)

Done == pc = "done"

Returned == Done /\ result.how = "return"

Text == result.content[1].text

\* the text is the JSON of an object
IsEnvelope == Returned /\ Text.fmt = "json" /\ Text.v.t = "object"

Fields == Text.v.f

\* a result that reports an error: a rejection, a failure text, an object
\* with an error description or with success: false
IsFailure ==
    /\ Done
    /\ \/ result.how = "throw"
       \/ Text.fmt = "plain"
       \/ /\ IsEnvelope
          /\ \/ "error" \in DOMAIN Fields
             \/ ("success" \in DOMAIN Fields /\ Fields["success"] = Bool(FALSE))

\* a result that carries the payload of the tool and reports no error
IsSuccess == IsEnvelope /\ ~IsFailure

\* the error description of a failure result
ErrorText ==
    CASE result.how = "throw" -> result.err.message
      [] Text.fmt = "plain" -> Text.s
      [] IsEnvelope /\ "error" \in DOMAIN Fields /\ Fields["error"].t = "string" ->
            Fields["error"].s
      [] OTHER -> ""

PayloadFields ==
    CASE tool = "load-swagger" -> {"baseUrl", "endpoints", "paths"}
      [] tool = "login" -> {"token"}
      [] tool = "call-api" -> {"data", "status"}
      [] OTHER -> {}

Is2xx(o) == o.kind = "response" /\ o.status >= 200 /\ o.status < 300

\* the validator accepted the fetched document
Accepted ==
    Done /\ tool = "load-swagger" /\ io.kind = "validate" /\ io.outcome = "accept"

ServersOf(d) == Get(d, "servers")
NonEmptyServers(d) == ServersOf(d).t = "array" /\ Len(ServersOf(d).a) > 0
NonEmptyHost(d) == Get(d, "host").t = "string" /\ Get(d, "host").s # ""

(* -------------------------------- claims ------------------------------ *)

\* C1: every handler invocation, whatever the outcome of its external steps,
\* ends by returning a result value; none ends by throwing or rejecting.
C1_HandlersAlwaysReturn == Done => result.how = "return"

\* C2: load-swagger with a URL that does not start with "https://" fails with
\* the invalid-input error and issues no fetch; every fetch follows a passed
\* HTTPS test of the url.
C2_NoFetchWithoutHttps ==
    tool = "load-swagger" =>
        /\ sent # <<>> => StartsWith(args.url, "https://")
        /\ (Done /\ ~StartsWith(args.url, "https://")) =>
                (IsFailure /\ Includes(ErrorText, "Only HTTPS URLs are allowed"))

\* C3: every result is an envelope with a success flag; the flag is true
\* exactly when the payload fields are there and no error description is,
\* and false exactly when an error description is there.
C3_UniformEnvelope ==
    Done =>
        /\ IsEnvelope
        /\ "success" \in DOMAIN Fields
        /\ Fields["success"].t = "boolean"
        /\ Fields["success"].b <=>
                (PayloadFields \subseteq DOMAIN Fields /\ "error" \notin DOMAIN Fields)
        /\ ~Fields["success"].b <=> "error" \in DOMAIN Fields

\* C4: call-api reports an upstream error status with details equal to the
\* response's status, statusText and body; a failure without a response
\* carries no upstream status details.
C4_FailureKinds ==
    (Done /\ tool = "call-api") =>
        /\ (io.kind = "response" /\ ~Is2xx(io)) =>
                /\ IsEnvelope /\ IsFailure
                /\ "details" \in DOMAIN Fields
                /\ Get(Fields["details"], "status") = Num(io.status)
                /\ Get(Fields["details"], "statusText") = Str(io.statusText)
                /\ Get(Fields["details"], "data") = io.data
        /\ io.kind \in {"network", "timeout"} =>
                /\ IsFailure
                /\ IsEnvelope =>
                      ("details" \in DOMAIN Fields =>
                          /\ Get(Fields["details"], "status") = Undef
                          /\ Get(Fields["details"], "statusText") = Undef
                          /\ Get(Fields["details"], "data") = Undef)

\* C5: login returns the string held by the tokenField of the response body
\* as token; when that field is absent or no string the result is a failure
\* whose error message names the tokenField, and no token is returned.
C5_TokenExtraction ==
    (Done /\ tool = "login" /\ Is2xx(io)) =>
        LET present == io.data.t = "object" /\ args.tokenField \in DOMAIN io.data.f
        IN  IF present /\ io.data.f[args.tokenField].t = "string"
            THEN /\ IsSuccess
                 /\ "token" \in DOMAIN Fields
                 /\ Fields["token"] = io.data.f[args.tokenField]
            ELSE /\ IsFailure
                 /\ Includes(ErrorText, args.tokenField)
                 /\ IsEnvelope => "token" \notin DOMAIN Fields

\* C6: for a document with a non-empty servers list the resolved base URL is
\* the url of the first entry, whatever follows it and whatever host,
\* schemes and basePath hold.
C6_FirstServerWins ==
    (Accepted /\ NonEmptyServers(doc)) =>
        /\ IsSuccess
        /\ "baseUrl" \in DOMAIN Fields
        /\ Fields["baseUrl"] = ServersOf(doc).a[1].f.url

C6_Witness ==
    /\ Accepted /\ IsSuccess
    /\ NonEmptyServers(doc) /\ Len(ServersOf(doc).a) = 2
    /\ ServersOf(doc).a[1] # ServersOf(doc).a[2]
    /\ NonEmptyHost(doc)
    /\ Fields["baseUrl"] = Str("http://b.example")

\* C7: for a document with a non-empty host and no servers entries the
\* resolved base URL is scheme + "://" + host + basePath, the scheme being
\* the first of schemes or "https" when schemes is absent or empty, and
\* basePath "" when absent.
C7_HostRule ==
    (Accepted /\ NonEmptyHost(doc) /\ ~NonEmptyServers(doc)) =>
        LET sc == Get(doc, "schemes")
            bp == Get(doc, "basePath")
            scheme == IF sc.t = "array" /\ Len(sc.a) > 0 THEN sc.a[1].s ELSE "https"
            basePath == IF bp.t = "string" THEN bp.s ELSE ""
        IN  /\ IsSuccess
            /\ "baseUrl" \in DOMAIN Fields
            /\ Fields["baseUrl"] = Str(scheme \o "://" \o Get(doc, "host").s \o basePath)

C7_Witness ==
    /\ Accepted /\ IsSuccess
    /\ NonEmptyHost(doc)
    /\ ServersOf(doc) = Arr(<<>>)
    /\ Get(doc, "schemes") = Arr(<<>>)
    /\ Get(doc, "basePath") = Undef
    /\ Fields["baseUrl"] = Str("https://api.example.com")

\* C8: for a document with no servers entries and no non-empty host the
\* resolver returns null without raising, and load-swagger reports
\* baseUrl null inside a success result.
C8_NullWhenUnresolvable ==
    (Accepted /\ ~NonEmptyServers(doc) /\ ~NonEmptyHost(doc)) =>
        /\ IsSuccess
        /\ "baseUrl" \in DOMAIN Fields
        /\ Fields["baseUrl"] = Null

C8_Witness ==
    /\ Accepted /\ IsSuccess
    /\ ServersOf(doc) = Arr(<<>>)
    /\ Get(doc, "host") = Str("")
    /\ Get(doc, "schemes") # Undef
    /\ Get(doc, "basePath") # Undef
    /\ Fields["baseUrl"] = Null

\* C9 as stated: the request of call-api carries an Authorization header if
\* and only if the caller supplied authToken, and then it is "Bearer " + token.
C9_HeaderIffSupplied ==
    (tool = "call-api" /\ sent # <<>>) =>
        /\ "Authorization" \in DOMAIN sent[1].headers <=> args.authToken # Undef
        /\ "Authorization" \in DOMAIN sent[1].headers =>
                sent[1].headers["Authorization"] = "Bearer " \o args.authToken.s

\* C9 amended: the request of call-api carries an Authorization header if and
\* only if the caller supplied a non-empty authToken, and then it is
\* "Bearer " + token.
C9_HeaderIffNonEmptyToken ==
    (tool = "call-api" /\ sent # <<>>) =>
        /\ "Authorization" \in DOMAIN sent[1].headers <=>
                (args.authToken.t = "string" /\ args.authToken.s # "")
        /\ "Authorization" \in DOMAIN sent[1].headers =>
                sent[1].headers["Authorization"] = "Bearer " \o args.authToken.s

C9_Witness ==
    /\ tool = "call-api" /\ Len(sent) = 1
    /\ args.authToken = Str("abc123")
    /\ "Authorization" \in DOMAIN sent[1].headers
    /\ sent[1].headers["Authorization"] = "Bearer abc123"

\* C10: a successful load-swagger lists the path keys of the validated
\* document in declared order, none dropped or repeated, and endpoints is
\* their number (0 and an empty list when paths is absent); a document
\* without an openapi or swagger field never yields a success result.
C10_PathInventory ==
    /\ Accepted =>
        LET p == Get(doc, "paths")
            declared == IF p.t = "ordered" THEN [i \in 1..Len(p.e) |-> Str(p.e[i].k)]
                        ELSE <<>>
        IN  /\ IsSuccess
            /\ {"paths", "endpoints"} \subseteq DOMAIN Fields
            /\ Fields["paths"] = Arr(declared)
            /\ Fields["endpoints"] = Num(Len(declared))
    /\ (tool = "load-swagger" /\ Done /\ Is2xx(io)
            /\ Get(io.data, "openapi") = Undef /\ Get(io.data, "swagger") = Undef) =>
        IsFailure
    /\ (tool = "load-swagger" /\ IsSuccess) =>
        (In("openapi", doc) \/ In("swagger", doc))

C10_Witness ==
    /\ Accepted /\ IsSuccess
    /\ Get(doc, "paths").t = "ordered"
    /\ Fields["paths"] = Arr(<<Str("/b"), Str("/a")>>)
    /\ Fields["endpoints"] = Num(2)

====
